---- MODULE Spec2Model ----
(***************************************************************************)
(* Model of the autograder harness of src/ml_example.py: the Tracker       *)
(* scoring state machine, the test registry and the driver main(), and     *)
(* the graph tracer trace_node.                                            *)
(*                                                                         *)
(* Python's None is the empty tuple and a present value v is <<v>>.        *)
(* A question id is the tuple of the character codes of its string, so     *)
(* that sorted() orders ids as Python orders strings.                      *)
(***************************************************************************)
EXTENDS Integers, Sequences, FiniteSets, TLC

VARIABLES
    \* ---- Tracker fields (src/ml_example.py:15-30) and sys.stdout
    questions,                  \* self.questions: the sorted list of ids
    maxes,                      \* self.maxes
    points,                     \* self.points
    current_question,           \* None or <<q>>
    current_test,               \* None or <<name>>
    points_at_test_start,       \* None or <<n>>
    possible_points_remaining,  \* None or <<n>>
    mute_output,
    original_stdout,            \* None or <<sink>>
    muted,
    sys_stdout,                 \* "stdout" or "WritableNull"
    \* ---- the registry and the driver main() (src/ml_example.py:81-126)
    TESTS,                      \* the list of (q, points, fn)
    pc,                         \* where main() is
    qi,                         \* index of q in questions (for q in questions)
    ti,                         \* index of the entry in TESTS (for ... in TESTS)
    tpc,                        \* where the running test function is
    calls,                      \* Tracker calls made by the test functions so far
    epoch,                      \* epochs done by DigitClassificationModel.train
    exit_code,                  \* None while running, <<code>> at process exit
    \* ---- history of the run
    lastCall,                   \* the last Tracker call: its arguments, the
                                \* fields it read and the line it printed
    log,                        \* begin_q / call / end_q events of main()
    awarded,                    \* awarded[i]: points added by the call of TESTS[i]
    \* ---- trace_node (src/ml_example.py:193-209)
    parents,                    \* node -> list of parent nodes
    node_to_trace,
    nodes,                      \* the set being built
    tape,                       \* the list being built
    stack,                      \* frames of visit(): [node, next parent index]
    trace_pc,
    \* ---- the models (src/models.py) and their datasets
    w,                          \* PerceptronModel.w, a vector of integers
    dataset,                    \* the dataset train() was given
    di,                         \* index of the next (x, y) of iterate_once
    flag,                       \* PerceptronModel.train's flag
    train_pc,                   \* where train() is
    lastPoint,                  \* the last point train() handled
    accuracy,                   \* None or <<last get_validation_accuracy()>>
    kind,                       \* node -> class of the node
    model,                      \* DigitClassificationModel's fields b0 w0 b1 w1
    lastRun                     \* the last run / get_loss call and its result

tracker == <<questions, maxes, points, current_question, current_test,
             points_at_test_start, possible_points_remaining, mute_output,
             original_stdout, muted, sys_stdout>>
driver  == <<TESTS, pc, qi, ti, tpc, calls, epoch, exit_code, log, awarded>>
tracer  == <<parents, node_to_trace, nodes, tape, stack, trace_pc>>
learner == <<w, dataset, di, flag, train_pc, lastPoint, accuracy, kind, model,
             lastRun>>
vars    == <<tracker, driver, lastCall, tracer, learner>>

\* ------------------------------------------------------------------ bounds
MaxTests  == 2      \* longest registry
MaxCalls  == 3      \* Tracker calls the test functions of one run make
MaxPts    == 2      \* largest argument of add_points / end_test
MaxEpochs == 2      \* epochs of train() followed
AccScale  == 2      \* get_validation_accuracy() returns k / AccScale, k in 0..AccScale
MaxNodes  == 4      \* nodes of a computation graph
MaxParents == 2     \* longest parents list of a node

\* ------------------------------------------------------------------ values
None    == <<>>
Some(v) == <<v>>

q10 == <<113, 49, 48>>      \* "q10"
q2  == <<113, 50>>          \* "q2"
q3  == <<113, 51>>          \* "q3"

QuestionIds == {q10, q2}

\* Python's str.__lt__: the first differing character decides, a proper
\* prefix is smaller.
RECURSIVE StrLess(_, _)
StrLess(a, b) ==
    IF a = <<>> THEN b # <<>>
    ELSE IF b = <<>> THEN FALSE
    ELSE IF a[1] # b[1] THEN a[1] < b[1]
    ELSE StrLess(Tail(a), Tail(b))

StrLeq(a, b) == a = b \/ StrLess(a, b)

Range(s) == {s[i] : i \in DOMAIN s}

\* list(sorted(S)) for a set of strings
RECURSIVE SortedMut(_)
SortedMut(S) ==
    IF S = {} THEN <<>>
    ELSE LET m == CHOOSE x \in S : \A y \in S : StrLeq(y, x)
         IN  <<m>> \o SortedMut(S \ {m})

RECURSIVE Sorted(_)
Sorted(S) ==
    IF S = {} THEN <<>>
    ELSE LET m == CHOOSE x \in S : \A y \in S : StrLeq(x, y)
         IN  <<m>> \o Sorted(S \ {m})

\* ---------------------------------------------------------------- registry
\* test(q, points)(fn) appends (q, points, fn) to TESTS.
Entry(q, p, fn) == [q |-> q, points |-> p, fn |-> fn]

\* The registry of the repository: @test('q3', points=6) on
\* check_digit_classification.
RepoRegistry == <<Entry(q3, 6, "check_digit_classification")>>

\* Registries of other test functions, whose bodies are any sequence of
\* Tracker calls.
DeclaredPoints == {1, 2}
Entries == {Entry(q, p, "test_fn") : q \in QuestionIds, p \in DeclaredPoints}

RECURSIVE SeqsUpTo(_, _)
SeqsUpTo(S, n) ==
    IF n = 0 THEN {<<>>}
    ELSE LET shorter == SeqsUpTo(S, n - 1)
         IN  shorter \cup {Append(s, e) : s \in shorter, e \in S}

Registries == SeqsUpTo(Entries, MaxTests) \cup {RepoRegistry}

\* main(), lines 101-107: the set of questions and the sum of the points of
\* each question's entries.
RECURSIVE SumPoints(_, _)
SumPoints(reg, q) ==
    IF reg = <<>> THEN 0
    ELSE (IF reg[1].q = q THEN reg[1].points ELSE 0) + SumPoints(Tail(reg), q)

RegQuestions(reg) == {reg[i].q : i \in DOMAIN reg}
RegMaxes(reg)     == [q \in RegQuestions(reg) |-> SumPoints(reg, q)]

\* ----------------------------------------------------------------- Tracker
\* What a Tracker call leaves behind for its caller and on the output: whether
\* it returned (ok) or raised, and the line it printed ("none": no line).
\* q is the argument of begin_q, None for the other calls.
Call(op, pts, ok, line) ==
    [op |-> op, pts |-> pts, ok |-> ok, line |-> line, q |-> None]

CallQ(op, q, ok) == [Call(op, 0, ok, "none") EXCEPT !.q = Some(q)]

\* Tracker.__init__
TrackerInit(qs, mx, mo) ==
    /\ questions = qs
    /\ maxes = mx
    /\ points = [q \in Range(qs) |-> 0]
    /\ current_question = None
    /\ current_test = None
    /\ points_at_test_start = None
    /\ possible_points_remaining = None
    /\ mute_output = mo
    /\ original_stdout = None
    /\ muted = FALSE
    /\ sys_stdout = "stdout"

mute_mut ==
    /\ muted' = TRUE
    /\ original_stdout' = Some(sys_stdout)
    /\ sys_stdout' = "WritableNull"

\* Tracker.mute, on the three fields it touches
mute ==
    IF muted
    THEN UNCHANGED <<muted, original_stdout, sys_stdout>>
    ELSE /\ muted' = TRUE
         /\ original_stdout' = Some(sys_stdout)
         /\ sys_stdout' = "WritableNull"

unmute_mut ==
    IF ~muted
    THEN UNCHANGED <<muted, original_stdout, sys_stdout>>
    ELSE /\ muted' = FALSE
         /\ UNCHANGED <<sys_stdout, original_stdout>>

\* Tracker.unmute, on the three fields it touches
unmute ==
    IF ~muted
    THEN UNCHANGED <<muted, original_stdout, sys_stdout>>
    ELSE /\ muted' = FALSE
         /\ sys_stdout' = original_stdout[1]
         /\ UNCHANGED original_stdout

begin_q_mut(q) ==
    /\ current_question' = Some(q)
    /\ possible_points_remaining' =
          IF q \in Range(questions) THEN Some(maxes[q]) ELSE None
    /\ lastCall' = CallQ("begin_q", q, q \in Range(questions))
    /\ UNCHANGED <<questions, maxes, points, current_test,
                   points_at_test_start, mute_output, original_stdout,
                   muted, sys_stdout>>

\* Tracker.begin_q
begin_q(q) ==
    IF q \in Range(questions)
    THEN /\ current_question' = Some(q)
         /\ possible_points_remaining' = Some(maxes[q])
         /\ lastCall' = CallQ("begin_q", q, TRUE)
         /\ UNCHANGED <<questions, maxes, points, current_test,
                        points_at_test_start, mute_output, original_stdout,
                        muted, sys_stdout>>
    ELSE /\ lastCall' = CallQ("begin_q", q, FALSE)
         /\ UNCHANGED tracker

begin_test_mut(test_name) ==
    /\ current_test' = Some(test_name)
    /\ UNCHANGED <<questions, maxes, points, current_question,
                   possible_points_remaining, mute_output>>
    /\ points_at_test_start' =
          IF current_question = None THEN Some(0)
          ELSE Some(points[current_question[1]])
    /\ lastCall' = Call("begin_test", 0, TRUE, "header")
    /\ IF mute_output
       THEN mute
       ELSE UNCHANGED <<original_stdout, muted, sys_stdout>>

\* Tracker.begin_test: current_test is assigned before self.points[...] is
\* read, which raises KeyError when no question is active.
begin_test(test_name) ==
    /\ current_test' = Some(test_name)
    /\ UNCHANGED <<questions, maxes, points, current_question,
                   possible_points_remaining, mute_output>>
    /\ IF current_question = None
       THEN /\ lastCall' = Call("begin_test", 0, FALSE, "none")
            /\ UNCHANGED <<points_at_test_start, original_stdout, muted,
                           sys_stdout>>
       ELSE /\ points_at_test_start' = Some(points[current_question[1]])
            /\ lastCall' = Call("begin_test", 0, TRUE, "header")
            /\ IF mute_output
               THEN mute
               ELSE UNCHANGED <<original_stdout, muted, sys_stdout>>

\* The line end_test prints, lines 64-67
PassFailMut(total, base, pts) ==
    IF total = base + pts THEN "PASS"
    ELSE IF total = base + 1 THEN "FAIL"
    ELSE "none"

PassFail(total, base, pts) ==
    IF total = base + pts THEN "PASS"
    ELSE IF total = base THEN "FAIL"
    ELSE "none"

end_test_mut(pts) ==
    /\ IF mute_output
       THEN unmute
       ELSE UNCHANGED <<original_stdout, muted, sys_stdout>>
    /\ UNCHANGED <<questions, maxes, points, current_question, mute_output>>
    /\ IF \/ possible_points_remaining = None
          \/ current_question = None
          \/ points_at_test_start = None
       THEN /\ lastCall' = Call("end_test", pts, FALSE, "none")
            /\ UNCHANGED <<possible_points_remaining, current_test,
                           points_at_test_start>>
       ELSE /\ possible_points_remaining' =
                  Some(possible_points_remaining[1]
                       - (points[current_question[1]] - points_at_test_start[1]))
            /\ lastCall' = Call("end_test", pts, TRUE,
                                PassFail(points[current_question[1]],
                                         points_at_test_start[1], pts))
            /\ current_test' = None
            /\ points_at_test_start' = None

\* Tracker.end_test: unmute, then the decrement (TypeError on None), then the
\* comparison (KeyError / TypeError when no question or no test is active),
\* then the two fields are cleared.
end_test(pts) ==
    /\ IF mute_output
       THEN unmute
       ELSE UNCHANGED <<original_stdout, muted, sys_stdout>>
    /\ UNCHANGED <<questions, maxes, points, current_question, mute_output>>
    /\ IF possible_points_remaining = None
       THEN /\ lastCall' = Call("end_test", pts, FALSE, "none")
            /\ UNCHANGED <<possible_points_remaining, current_test,
                           points_at_test_start>>
       ELSE /\ possible_points_remaining' = Some(possible_points_remaining[1] - pts)
            /\ IF current_question = None \/ points_at_test_start = None
               THEN /\ lastCall' = Call("end_test", pts, FALSE, "none")
                    /\ UNCHANGED <<current_test, points_at_test_start>>
               ELSE /\ lastCall' = Call("end_test", pts, TRUE,
                                        PassFail(points[current_question[1]],
                                                 points_at_test_start[1], pts))
                    /\ current_test' = None
                    /\ points_at_test_start' = None

end_q_mut ==
    IF current_question # None
    THEN /\ current_question' = None
         /\ possible_points_remaining' = None
         /\ lastCall' = Call("end_q", 0, TRUE, "none")
         /\ UNCHANGED <<questions, maxes, points, current_test,
                        points_at_test_start, mute_output, original_stdout,
                        muted, sys_stdout>>
    ELSE /\ lastCall' = Call("end_q", 0, FALSE, "none")
         /\ UNCHANGED tracker

end_q_clears_mut ==
    /\ current_question' = None
    /\ possible_points_remaining' = None
    /\ lastCall' = Call("end_q", 0,
                        current_question # None
                            /\ possible_points_remaining = Some(0),
                        "none")
    /\ UNCHANGED <<questions, maxes, points, current_test,
                   points_at_test_start, mute_output, original_stdout,
                   muted, sys_stdout>>

end_q_question_mut ==
    IF current_question # None /\ possible_points_remaining = Some(0)
    THEN /\ current_question' = None
         /\ lastCall' = Call("end_q", 0, TRUE, "none")
         /\ UNCHANGED <<questions, maxes, points, current_test,
                        points_at_test_start, possible_points_remaining,
                        mute_output, original_stdout, muted, sys_stdout>>
    ELSE /\ lastCall' = Call("end_q", 0, FALSE, "none")
         /\ UNCHANGED tracker

\* Tracker.end_q
end_q ==
    IF current_question # None /\ possible_points_remaining = Some(0)
    THEN /\ current_question' = None
         /\ possible_points_remaining' = None
         /\ lastCall' = Call("end_q", 0, TRUE, "none")
         /\ UNCHANGED <<questions, maxes, points, current_test,
                        points_at_test_start, mute_output, original_stdout,
                        muted, sys_stdout>>
    ELSE /\ lastCall' = Call("end_q", 0, FALSE, "none")
         /\ UNCHANGED tracker

add_points_mut(pts) ==
    IF current_question = None
    THEN /\ lastCall' = Call("add_points", pts, FALSE, "none")
         /\ UNCHANGED tracker
    ELSE /\ points' = [points EXCEPT ![current_question[1]] = @ + pts + 1]
         /\ lastCall' = Call("add_points", pts, TRUE, "none")
         /\ UNCHANGED <<questions, maxes, current_question, current_test,
                        points_at_test_start, possible_points_remaining,
                        mute_output, original_stdout, muted, sys_stdout>>

\* Tracker.add_points: KeyError when no question is active
add_points(pts) ==
    IF current_question = None
    THEN /\ lastCall' = Call("add_points", pts, FALSE, "none")
         /\ UNCHANGED tracker
    ELSE /\ points' = [points EXCEPT ![current_question[1]] = @ + pts]
         /\ lastCall' = Call("add_points", pts, TRUE, "none")
         /\ UNCHANGED <<questions, maxes, current_question, current_test,
                        points_at_test_start, possible_points_remaining,
                        mute_output, original_stdout, muted, sys_stdout>>

\* ------------------------------------------------------------------ main()
\* An event of main(): begin_q(q), the call of TESTS[i], end_q() for q; ok
\* tells whether the call returned (for the call of a test: was made).
Event(ev, q, i, ok) == [ev |-> ev, q |-> q, i |-> i, ok |-> ok]

\* State after main() has built questions and maxes and constructed the
\* Tracker (lines 101-110); the for loop over questions is about to start.
DriverInit(reg) ==
    /\ TESTS = reg
    /\ TrackerInit(Sorted(RegQuestions(reg)), RegMaxes(reg), FALSE)
    /\ pc = "for_q"
    /\ qi = 1
    /\ ti = 1
    /\ tpc = "none"
    /\ calls = 0
    /\ epoch = 0
    /\ exit_code = None
    /\ lastCall = Call("__init__", 0, TRUE, "none")
    /\ log = <<>>
    /\ awarded = [i \in DOMAIN reg |-> 0]

\* No model has been constructed.
LearnerIdle ==
    /\ w = <<>>
    /\ dataset = <<>>
    /\ di = 1
    /\ flag = TRUE
    /\ train_pc = "idle"
    /\ lastPoint = None
    /\ accuracy = None
    /\ kind = <<>>
    /\ model = None
    /\ lastRun = None

TracerIdle ==
    /\ parents = <<>>
    /\ node_to_trace = 0
    /\ nodes = {}
    /\ tape = <<>>
    /\ stack = <<>>
    /\ trace_pc = "idle"

Init == 
    /\ \E reg \in Registries : DriverInit(reg)
    /\ TracerIdle
    /\ LearnerIdle

\* for q in questions: started = tracker.begin_q(q) (lines 111-114); main()
\* returns when the list is exhausted.
ForQ ==
    /\ pc = "for_q"
    /\ UNCHANGED <<TESTS, tpc, calls, epoch, awarded, tracer, learner>>
    /\ IF qi > Len(questions)
       THEN /\ pc' = "returned"
            /\ exit_code' = Some(0)
            /\ UNCHANGED <<tracker, lastCall, qi, ti, log>>
       ELSE /\ begin_q(questions[qi])
            /\ log' = Append(log, Event("begin_q", questions[qi], 0, lastCall'.ok))
            /\ ti' = 1
            /\ pc' = IF lastCall'.ok THEN "for_test" ELSE "uncaught"
            /\ exit_code' = IF lastCall'.ok THEN None ELSE Some(1)
            /\ UNCHANGED qi

\* The index of the next entry to look at after entry i (line 116)
NextEntryMut(i) == i + 2

NextEntry(i) == i + 1

\* Whether the entry is one of q's (lines 117-118)
Matches(testq, q) == testq = q

\* for testq, points, fn in TESTS: skip the entries of other questions, call
\* fn(tracker) (lines 116-120); after the last entry go on to end_q.
ForTest ==
    /\ pc = "for_test"
    /\ UNCHANGED <<tracker, lastCall, TESTS, qi, epoch, exit_code, awarded,
                   tracer, learner>>
    /\ IF ti > Len(TESTS)
       THEN /\ pc' = "end_q"
            /\ UNCHANGED <<ti, tpc, calls, log>>
       ELSE IF ~Matches(TESTS[ti].q, questions[qi])
       THEN /\ ti' = NextEntry(ti)
            /\ UNCHANGED <<pc, tpc, calls, log>>
       ELSE /\ pc' = "in_test"
            /\ tpc' = IF TESTS[ti].fn = "check_digit_classification"
                      THEN "sanity" ELSE "body"
            /\ log' = Append(log, Event("call", TESTS[ti].q, ti, TRUE))
            /\ UNCHANGED <<ti, calls>>

\* A Tracker call made by the running test function: an error it raises
\* propagates out of the function.
AfterCall ==
    /\ calls' = calls + 1
    /\ pc' = IF lastCall'.ok THEN "in_test" ELSE "except"
    /\ UNCHANGED <<TESTS, qi, ti, tpc, epoch, exit_code, log, tracer, learner>>

InBody == pc = "in_test" /\ tpc = "body" /\ calls < MaxCalls

TestBeginTest ==
    /\ InBody
    /\ begin_test(TESTS[ti].fn)
    /\ AfterCall
    /\ UNCHANGED awarded

TestAddPoints ==
    /\ InBody
    /\ \E n \in 0..MaxPts : 
          /\ add_points(n)
          /\ awarded' = [awarded EXCEPT ![ti] = @ + n]
    /\ AfterCall

TestEndTest ==
    /\ InBody
    /\ \E p \in 0..MaxPts : end_test(p)
    /\ AfterCall
    /\ UNCHANGED awarded

TestMute ==
    /\ InBody
    /\ mute
    /\ lastCall' = Call("mute", 0, TRUE, "none")
    /\ UNCHANGED <<questions, maxes, points, current_question, current_test,
                   points_at_test_start, possible_points_remaining,
                   mute_output>>
    /\ AfterCall
    /\ UNCHANGED awarded

\* The test function returns: the loop goes on to the next entry.
TestReturn ==
    /\ pc = "in_test"
    /\ tpc = "body"
    /\ pc' = "for_test"
    /\ ti' = NextEntry(ti)
    /\ tpc' = "none"
    /\ UNCHANGED <<tracker, lastCall, TESTS, qi, calls, epoch, exit_code, log,
                   awarded, tracer, learner>>

\* The test function raises an exception that is not KeyboardInterrupt.
TestRaise ==
    /\ pc = "in_test"
    /\ pc' = "except"
    /\ UNCHANGED <<tracker, lastCall, TESTS, qi, ti, tpc, calls, epoch,
                   exit_code, log, awarded, tracer, learner>>

\* KeyboardInterrupt is raised while the test function runs.
TestInterrupt ==
    /\ pc = "in_test"
    /\ pc' = "except_ki"
    /\ UNCHANGED <<tracker, lastCall, TESTS, qi, ti, tpc, calls, epoch,
                   exit_code, log, awarded, tracer, learner>>

\* check_digit_classification, lines 214-247: the sanity checks either fail
\* an assertion or end with tracker.add_points(2).
CDCSanity ==
    /\ pc = "in_test"
    /\ tpc = "sanity"
    /\ \/ /\ pc' = "except"
          /\ UNCHANGED <<tracker, lastCall, tpc, awarded>>
       \/ /\ add_points(2)
          /\ awarded' = [awarded EXCEPT ![ti] = @ + 2]
          /\ tpc' = "train"
          /\ pc' = IF lastCall'.ok THEN "in_test" ELSE "except"
    /\ UNCHANGED <<TESTS, qi, ti, calls, epoch, exit_code, log, tracer, learner>>

\* DigitClassificationModel.train (src/models.py:185-194): one epoch, then
\* return if get_validation_accuracy() > 1.  acc stands for acc / AccScale.
TrainReturns(acc) == acc > AccScale

\* check_digit_classification, lines 249-260: an epoch of model.train; once
\* train returns, add_points(4) if the test accuracy reaches the threshold,
\* and the function returns.
CDCTrain ==
    /\ pc = "in_test"
    /\ tpc = "train"
    /\ epoch < MaxEpochs
    /\ \E acc \in 0..AccScale :
          IF TrainReturns(acc)
          THEN /\ \E passed \in BOOLEAN :
                     IF passed
                     THEN /\ add_points(4)
                          /\ awarded' = [awarded EXCEPT ![ti] = @ + 4]
                     ELSE UNCHANGED <<tracker, lastCall, awarded>>
               /\ pc' = "for_test"
               /\ ti' = NextEntry(ti)
               /\ tpc' = "none"
               /\ UNCHANGED epoch
          ELSE /\ epoch' = epoch + 1
               /\ UNCHANGED <<tracker, lastCall, awarded, pc, ti, tpc>>
    /\ UNCHANGED <<TESTS, qi, calls, exit_code, log, tracer, learner>>

\* except: tracker.unmute() (lines 124-125); the loop goes on.
ExceptHandlerMut ==
    /\ pc = "except"
    /\ unmute
    /\ points' = [q \in DOMAIN points |-> 0]
    /\ pc' = "for_test"
    /\ ti' = NextEntry(ti)
    /\ tpc' = "none"
    /\ UNCHANGED <<questions, maxes, current_question, current_test,
                   points_at_test_start, possible_points_remaining,
                   mute_output, lastCall>>
    /\ UNCHANGED <<TESTS, qi, calls, epoch, exit_code, log, awarded, tracer, learner>>

ExceptHandler ==
    /\ pc = "except"
    /\ unmute
    /\ pc' = "for_test"
    /\ ti' = NextEntry(ti)
    /\ tpc' = "none"
    /\ UNCHANGED <<questions, maxes, points, current_question, current_test,
                   points_at_test_start, possible_points_remaining,
                   mute_output, lastCall>>
    /\ UNCHANGED <<TESTS, qi, calls, epoch, exit_code, log, awarded, tracer, learner>>

InterruptHandlerMut ==
    /\ pc = "except_ki"
    /\ unmute
    /\ pc' = "for_test"
    /\ ti' = NextEntry(ti)
    /\ tpc' = "none"
    /\ UNCHANGED <<questions, maxes, points, current_question, current_test,
                   points_at_test_start, possible_points_remaining,
                   mute_output, lastCall>>
    /\ UNCHANGED <<TESTS, qi, calls, epoch, exit_code, log, awarded, tracer, learner>>

\* except KeyboardInterrupt: tracker.unmute(); sys.exit(1) (lines 121-123)
InterruptHandler ==
    /\ pc = "except_ki"
    /\ unmute
    /\ pc' = "exited"
    /\ exit_code' = Some(1)
    /\ UNCHANGED <<questions, maxes, points, current_question, current_test,
                   points_at_test_start, possible_points_remaining,
                   mute_output, lastCall>>
    /\ UNCHANGED <<TESTS, qi, ti, tpc, calls, epoch, log, awarded, tracer, learner>>

\* tracker.end_q() (line 126), outside the try statement: a failed assertion
\* propagates out of main() and the interpreter exits with status 1.
EndQ ==
    /\ pc = "end_q"
    /\ end_q
    /\ log' = Append(log, Event("end_q", questions[qi], 0, lastCall'.ok))
    /\ IF lastCall'.ok
       THEN /\ pc' = "for_q"
            /\ qi' = qi + 1
            /\ UNCHANGED exit_code
       ELSE /\ pc' = "uncaught"
            /\ exit_code' = Some(1)
            /\ UNCHANGED qi
    /\ UNCHANGED <<TESTS, ti, tpc, calls, epoch, awarded, tracer, learner>>

Next ==
    \/ ForQ
    \/ ForTest
    \/ TestBeginTest
    \/ TestAddPoints
    \/ TestEndTest
    \/ TestMute
    \/ TestReturn
    \/ TestRaise
    \/ TestInterrupt
    \/ CDCSanity
    \/ CDCTrain
    \/ ExceptHandler
    \/ InterruptHandler
    \/ EndQ

Spec == Init /\ [][Next]_vars

\* ------------------------------------------------- the Tracker on its own
\* A Tracker constructed as main() constructs it, with either setting of
\* mute_output, and then called in any order with any arguments.
TrackerRegistries ==
    SeqsUpTo(Entries, 1) \cup
    {RepoRegistry, <<Entry(q2, 1, "test_fn"), Entry(q10, 2, "test_fn")>>}

TrackerOnlyInit ==
    /\ \E reg \in TrackerRegistries, mo \in BOOLEAN :
          /\ TESTS = reg
          /\ TrackerInit(Sorted(RegQuestions(reg)), RegMaxes(reg), mo)
          /\ awarded = [i \in DOMAIN reg |-> 0]
    /\ pc = "tracker"
    /\ qi = 1
    /\ ti = 1
    /\ tpc = "none"
    /\ calls = 0
    /\ epoch = 0
    /\ exit_code = None
    /\ lastCall = Call("__init__", 0, TRUE, "none")
    /\ log = <<>>
    /\ TracerIdle
    /\ LearnerIdle

CallBeginQ ==
    /\ \E q \in QuestionIds \cup {q3} : begin_q(q)
    /\ UNCHANGED <<driver, tracer, learner>>

CallBeginTest ==
    /\ begin_test("test_fn")
    /\ UNCHANGED <<driver, tracer, learner>>

\* The totals are kept within MaxPts.
CallAddPoints ==
    /\ \E n \in 0..MaxPts :
          /\ current_question # None => points[current_question[1]] + n <= MaxPts
          /\ add_points(n)
    /\ UNCHANGED <<driver, tracer, learner>>

\* The remaining possible points are kept from -MaxPts on.
CallEndTest ==
    /\ \E p \in 0..MaxPts :
          /\ possible_points_remaining # None =>
                possible_points_remaining[1] - p >= 0 - MaxPts
          /\ end_test(p)
    /\ UNCHANGED <<driver, tracer, learner>>

CallEndQ ==
    /\ end_q
    /\ UNCHANGED <<driver, tracer, learner>>

CallMute ==
    /\ mute
    /\ lastCall' = Call("mute", 0, TRUE, "none")
    /\ UNCHANGED <<questions, maxes, points, current_question, current_test,
                   points_at_test_start, possible_points_remaining,
                   mute_output>>
    /\ UNCHANGED <<driver, tracer, learner>>

CallUnmute ==
    /\ unmute
    /\ lastCall' = Call("unmute", 0, TRUE, "none")
    /\ UNCHANGED <<questions, maxes, points, current_question, current_test,
                   points_at_test_start, possible_points_remaining,
                   mute_output>>
    /\ UNCHANGED <<driver, tracer, learner>>

TrackerNext ==
    \/ CallBeginQ
    \/ CallBeginTest
    \/ CallAddPoints
    \/ CallEndTest
    \/ CallEndQ
    \/ CallMute
    \/ CallUnmute

SpecTracker == TrackerOnlyInit /\ [][TrackerNext]_vars

\* -------------------------------------------------------------- trace_node
\* Computation graphs: node k has a list of at most MaxParents parents, each
\* an earlier node (the graph is acyclic; a node may be listed twice, as in
\* nn.Add(x, x)).  Nodes after the root are no ancestors of it and get no
\* parents.
ParentLists(k) == SeqsUpTo(1..(k - 1), MaxParents)

RECURSIVE GraphsUpTo(_)
GraphsUpTo(k) ==
    IF k = 0 THEN {<<>>}
    ELSE {Append(g, ps) : g \in GraphsUpTo(k - 1), ps \in ParentLists(k)}

Graphs(root) ==
    {g \o [k \in 1..(MaxNodes - root) |-> <<>>] : g \in GraphsUpTo(root)}

Frame(node, i) == [node |-> node, i |-> i]

\* State at line 207: nodes = set(), tape = [], visit(node_to_trace) is
\* being called.  A frame of visit is at i = 0 before the test of line 201
\* and at i = k before the k-th parent of the for loop.
TraceInit ==
    /\ \E root \in 1..MaxNodes :
          /\ node_to_trace = root
          /\ \E g \in Graphs(root) : parents = g
          /\ stack = <<Frame(root, 0)>>
    /\ nodes = {}
    /\ tape = <<>>
    /\ trace_pc = "visit"
    /\ TESTS = <<>>
    /\ TrackerInit(<<>>, <<>>, FALSE)
    /\ awarded = <<>>
    /\ pc = "trace_node"
    /\ qi = 1
    /\ ti = 1
    /\ tpc = "none"
    /\ calls = 0
    /\ epoch = 0
    /\ exit_code = None
    /\ lastCall = Call("__init__", 0, TRUE, "none")
    /\ log = <<>>
    /\ LearnerIdle

Top == stack[Len(stack)]
Pop == SubSeq(stack, 1, Len(stack) - 1)

\* The parents the for loop of line 202 goes through
LoopParentsMut(node) ==
    IF parents[node] = <<>> THEN <<>> ELSE <<parents[node][1]>>

RECURSIVE Reversed(_)
Reversed(ps) == IF ps = <<>> THEN <<>> ELSE Append(Reversed(Tail(ps)), ps[1])

LoopParentsRevMut(node) == Reversed(parents[node])

LoopParents(node) == parents[node]

\* Whether visit(node) does anything (line 201)
NotVisitedMut(node) == TRUE

NotVisited(node) == node \notin nodes

\* if node not in nodes: a visited node makes visit return at once.
VisitTest ==
    /\ trace_pc = "visit"
    /\ stack # <<>>
    /\ Top.i = 0
    /\ IF NotVisited(Top.node)
       THEN stack' = Append(Pop, Frame(Top.node, 1))
       ELSE stack' = Pop
    /\ UNCHANGED <<parents, node_to_trace, nodes, tape, trace_pc>>
    /\ UNCHANGED <<tracker, driver, lastCall, learner>>

\* for parent in node.parents: visit(parent)
VisitParent ==
    /\ trace_pc = "visit"
    /\ stack # <<>>
    /\ Top.i >= 1
    /\ Top.i <= Len(LoopParents(Top.node))
    /\ stack' = Append(Append(Pop, Frame(Top.node, Top.i + 1)),
                       Frame(LoopParents(Top.node)[Top.i], 0))
    /\ UNCHANGED <<parents, node_to_trace, nodes, tape, trace_pc>>
    /\ UNCHANGED <<tracker, driver, lastCall, learner>>

\* nodes.add(node); tape.append(node); visit returns
VisitAdd ==
    /\ trace_pc = "visit"
    /\ stack # <<>>
    /\ Top.i > Len(LoopParents(Top.node))
    /\ nodes' = nodes \cup {Top.node}
    /\ tape' = Append(tape, Top.node)
    /\ stack' = Pop
    /\ UNCHANGED <<parents, node_to_trace, trace_pc>>
    /\ UNCHANGED <<tracker, driver, lastCall, learner>>

\* return nodes
TraceReturn ==
    /\ trace_pc = "visit"
    /\ stack = <<>>
    /\ trace_pc' = "returned"
    /\ UNCHANGED <<parents, node_to_trace, nodes, tape, stack>>
    /\ UNCHANGED <<tracker, driver, lastCall, learner>>

TraceNext ==
    \/ VisitTest
    \/ VisitParent
    \/ VisitAdd
    \/ TraceReturn

SpecTrace == TraceInit /\ [][TraceNext]_vars

\* ------------------------------------------------- claims about main()
\* end_q() for q has been called and has returned.
Ended(q) == \E i \in DOMAIN log : log[i] = Event("end_q", q, 0, TRUE)

\* The entries of q, in registry order
RECURSIVE EntriesOf(_, _)
EntriesOf(q, n) ==
    IF n = 0 THEN <<>>
    ELSE IF TESTS[n].q = q THEN Append(EntriesOf(q, n - 1), n)
    ELSE EntriesOf(q, n - 1)

\* The entries main() has called for q, in the order of the calls
RECURSIVE CalledFor(_, _)
CalledFor(q, n) ==
    IF n = 0 THEN <<>>
    ELSE IF log[n].ev = "call" /\ log[n].q = q
         THEN Append(CalledFor(q, n - 1), log[n].i)
    ELSE CalledFor(q, n - 1)

IsPrefix(s, t) == Len(s) <= Len(t) /\ \A i \in DOMAIN s : s[i] = t[i]

\* No test of q added more than the points it was registered with.
WithinDeclared(q) ==
    \A i \in DOMAIN TESTS : TESTS[i].q = q => awarded[i] <= TESTS[i].points

\* C1 as claimed: once end_q for q has completed, points[q] <= maxes[q],
\* whatever the tests of q passed to add_points.
C1_Original ==
    \A q \in Range(questions) : Ended(q) => points[q] <= maxes[q]

\* C1 amended: once end_q for q has completed, points[q] <= maxes[q] provided
\* no test of q added more than its declared point value.
C1_Amended ==
    \A q \in Range(questions) :
        Ended(q) /\ WithinDeclared(q) => points[q] <= maxes[q]

C1_Witness ==
    \E q \in Range(questions) :
        /\ Ended(q) 
        /\ WithinDeclared(q)
        /\ points[q] = maxes[q]
        /\ lastCall = Call("end_q", 0, TRUE, "none")

\* C2 as claimed, on the registry of the repository: with no interrupt, the
\* remaining possible points are 0 whenever main() is about to call end_q,
\* and main() is not left by a failed assertion.
C2_Original ==
    TESTS = RepoRegistry =>
        /\ pc = "end_q" => possible_points_remaining = Some(0)
        /\ pc # "uncaught"

\* C4: a test that raises an exception other than KeyboardInterrupt is
\* caught: the handler unmutes the output, keeps the points of every question
\* and the current question, and the loop goes on with the next entry.
C4_ExceptionCaught ==
    [][pc = "except" =>
          /\ pc' = "for_test"
          /\ ti' = ti + 1
          /\ qi' = qi
          /\ ~muted'
          /\ sys_stdout' = "stdout"
          /\ points' = points
          /\ current_question' = current_question
          /\ exit_code' = None]_vars

\* The second test of a question is being called after the first one added
\* points, muted the output and raised.
C4_Witness ==
    /\ pc = "in_test"
    /\ ti = 2
    /\ TESTS[1].q = TESTS[2].q
    /\ awarded[1] > 0
    /\ points[TESTS[1].q] = awarded[1]
    /\ original_stdout # None
    /\ ~muted
    /\ ~lastCall.ok

\* C5 as claimed: a failed end_q assertion is caught and main() goes on to
\* the next question.
C5_Original ==
    [][pc = "end_q" /\ possible_points_remaining # Some(0) =>
          pc' = "for_q" /\ qi' = qi + 1]_vars

\* C5 amended: a point-accounting mismatch at end_q is not caught: the failed
\* assertion leaves main(), the process ends with status 1, the Tracker is
\* left as it was and no later question is begun.
C5_Amended ==
    [][/\ pc = "end_q" /\ possible_points_remaining # Some(0) =>
            /\ pc' = "uncaught"
            /\ exit_code' = Some(1)
            /\ qi' = qi
            /\ UNCHANGED tracker
       /\ pc # "uncaught"]_vars

C5_Witness ==
    /\ pc = "uncaught"
    /\ qi < Len(questions)
    /\ possible_points_remaining # Some(0)

\* C7: main() takes the questions in ascending lexicographic order: the
\* events of a smaller question all precede those of a larger one, the events
\* of one question are begin_q, then its tests, then end_q, and a test runs
\* only while its own question is the current one.  Stated on each pair of
\* consecutive events (the order of strings is transitive): the question of
\* the later one is the same or larger, within a question end_q is last and
\* begin_q first, and the question changes only from an end_q to a begin_q.
C7_QuestionOrder ==
    /\ log # <<>> => log[1].ev = "begin_q"
    /\ \A i \in 1..(Len(log) - 1) :
          LET a == log[i]
              b == log[i + 1]
          IN  /\ StrLeq(a.q, b.q)
              /\ a.q = b.q => a.ev # "end_q" /\ b.ev # "begin_q"
              /\ a.q # b.q => a.ev = "end_q" /\ b.ev = "begin_q"
    /\ pc \in {"in_test", "except", "except_ki"} =>
          current_question = Some(TESTS[ti].q)

\* "q2" was registered before "q10" and the test of "q10" has run first.
C7_Witness ==
    /\ Len(TESTS) = 2
    /\ TESTS[1].q = q2
    /\ TESTS[2].q = q10
    /\ pc = "in_test"
    /\ ti = 1
    /\ \E i \in DOMAIN log : log[i] = Event("call", q10, 2, TRUE)

\* C8: the entries called for a question are its registry entries in
\* registry order, each at most once, and all of them once main() is about
\* to call end_q or has called it.
C8_EachTestOnce ==
    \A q \in Range(questions) :
        /\ IsPrefix(CalledFor(q, Len(log)), EntriesOf(q, Len(TESTS)))
        /\ (\/ pc = "end_q" /\ questions[qi] = q
            \/ \E i \in DOMAIN log : log[i].ev = "end_q" /\ log[i].q = q)
           => CalledFor(q, Len(log)) = EntriesOf(q, Len(TESTS))

\* A question with two registrations of the same function: the first call
\* raised, and both have been called once when end_q is due.
C8_Witness ==
    /\ pc = "end_q"
    /\ Len(TESTS) = 2
    /\ TESTS[1].q = TESTS[2].q
    /\ TESTS[1].fn = TESTS[2].fn
    /\ ~lastCall.ok
    /\ CalledFor(TESTS[1].q, Len(log)) = <<1, 2>>

\* C9: KeyboardInterrupt in a test: the handler unmutes the output and exits
\* with status 1 without another event of main(), and nothing runs after the
\* exit.
C9_InterruptExits ==
    [][/\ pc = "except_ki" =>
            /\ pc' = "exited"
            /\ exit_code' = Some(1)
            /\ ~muted'
            /\ sys_stdout' = "stdout"
            /\ log' = log
            /\ current_question' = current_question
       /\ pc # "exited"]_vars

\* The process has exited on an interrupt in a test that had muted the
\* output, with a later entry and a later question left.
C9_Witness ==
    /\ pc = "exited"
    /\ exit_code = Some(1)
    /\ lastCall.op = "mute"
    /\ ~muted
    /\ qi < Len(questions)
    /\ ti < Len(TESTS)
    /\ log[Len(log)] = Event("call", questions[qi], ti, TRUE)

\* ---------------------------------------------- claims about the Tracker
\* In SpecTracker every step is one Tracker call, named by lastCall'.op; the
\* unprimed fields are the ones the call found.
EndTestCompares ==
    /\ lastCall'.op = "end_test"
    /\ possible_points_remaining # None
    /\ current_question # None
    /\ points_at_test_start # None

\* C3 as claimed: end_test(pts) prints PASS iff the total is baseline + pts,
\* FAIL iff the total is the baseline, and nothing otherwise.
C3_Original ==
    [][EndTestCompares =>
          LET total == points[current_question[1]]
              base  == points_at_test_start[1]
              pts   == lastCall'.pts
          IN  /\ lastCall'.line = "PASS" <=> total = base + pts
              /\ lastCall'.line = "FAIL" <=> total = base
              /\ lastCall'.line \in {"PASS", "FAIL", "none"}]_vars

\* C3 amended: PASS iff the total is baseline + pts; FAIL iff the total is the
\* baseline and pts is not 0 (with pts = 0 and the total at the baseline the
\* line is PASS); nothing otherwise.
C3_Amended ==
    [][EndTestCompares =>
          LET total == points[current_question[1]]
              base  == points_at_test_start[1]
              pts   == lastCall'.pts
          IN  /\ lastCall'.line = "PASS" <=> total = base + pts
              /\ lastCall'.line = "FAIL" <=> (total = base /\ pts # 0)
              /\ lastCall'.line \in {"PASS", "FAIL", "none"}]_vars

\* end_test(0) has printed PASS for a test that added nothing.
C3_Witness ==
    /\ lastCall = Call("end_test", 0, TRUE, "PASS")
    /\ current_question # None
    /\ points[current_question[1]] = 0

\* C6: end_q returns iff a question is active and the remaining possible
\* points are exactly 0; it then clears current_question and
\* possible_points_remaining and leaves the other fields, points among them,
\* alone; otherwise it raises and changes no field.
C6_EndQ ==
    [][lastCall'.op = "end_q" =>
          /\ lastCall'.ok <=> (/\ current_question # None
                               /\ possible_points_remaining = Some(0))
          /\ lastCall'.ok =>
                /\ current_question' = None
                /\ possible_points_remaining' = None
                /\ UNCHANGED <<questions, maxes, points, current_test,
                               points_at_test_start, mute_output,
                               original_stdout, muted, sys_stdout>>
          /\ ~lastCall'.ok => UNCHANGED tracker]_vars

\* end_q has returned on a question with points awarded.
C6_Witness ==
    /\ lastCall = Call("end_q", 0, TRUE, "none")
    /\ current_question = None
    /\ \E q \in DOMAIN points : points[q] > 0

\* ---------------------------------------------- claims about trace_node
\* The nodes reachable from the nodes of S through zero or more parents edges
RECURSIVE Ancestors(_)
Ancestors(S) ==
    LET T == S \cup UNION {Range(parents[n]) : n \in S}
    IN  IF T = S THEN S ELSE Ancestors(T)

\* C10: trace_node returns exactly the set of nodes reachable from the root
\* through zero or more parents edges: the root is in it, and it is {root}
\* when the root has no parents.
C10_TraceIsAncestors ==
    trace_pc = "returned" =>
        /\ nodes = Ancestors({node_to_trace})
        /\ node_to_trace \in nodes
        /\ parents[node_to_trace] = <<>> => nodes = {node_to_trace}

\* trace_node has returned on the diamond 4 -> (2, 3) -> 1.
C10_Witness ==
    /\ trace_pc = "returned"
    /\ node_to_trace = 4
    /\ parents = <<(<<>>), <<1>>, <<1>>, <<2, 3>>>>
    /\ nodes = {1, 2, 3, 4}

\* C11: each reachable node is added and appended to the tape exactly once,
\* however many paths lead to it: at every moment the tape has no duplicates
\* and holds exactly the nodes of the set, so its length is the size of the
\* set trace_node returns.
C11_TapeNoDuplicates ==
    trace_pc \in {"visit", "returned"} =>
        /\ \A i, j \in DOMAIN tape : tape[i] = tape[j] => i = j
        /\ Range(tape) = nodes
        /\ Len(tape) = Cardinality(nodes)

\* trace_node has returned on a diamond whose shared ancestor 1 is also
\* listed twice by node 2.
C11_Witness ==
    /\ trace_pc = "returned"
    /\ node_to_trace = 4
    /\ parents = <<(<<>>), <<1, 1>>, <<1>>, <<2, 3>>>>
    /\ tape = <<1, 2, 3, 4>>

\* The postorder of the graph from a node, parents taken in list order and
\* nodes of acc skipped
RECURSIVE PostOrder(_, _)
RECURSIVE PostOrderAll(_, _)
PostOrder(node, acc) ==
    IF node \in Range(acc) THEN acc
    ELSE Append(PostOrderAll(parents[node], acc), node)
PostOrderAll(ps, acc) ==
    IF ps = <<>> THEN acc
    ELSE PostOrderAll(Tail(ps), PostOrder(ps[1], acc))

\* C19: the tape is a topological order of the reachable subgraph: at every
\* moment each node of the tape comes after all its parents, and on return
\* the tape is the postorder that takes each node's parents in the order of
\* its parents list, with the root last.
C19_TapeTopological ==
    /\ trace_pc \in {"visit", "returned"} =>
          \A i \in DOMAIN tape : \A p \in Range(parents[tape[i]]) :
              \E j \in 1..(i - 1) : tape[j] = p
    /\ trace_pc = "returned" =>
          /\ tape = PostOrder(node_to_trace, <<>>)
          /\ tape[Len(tape)] = node_to_trace

\* trace_node has returned on a diamond whose root lists parent 3 before
\* parent 2: 3 is on the tape before 2.
C19_Witness ==
    /\ trace_pc = "returned"
    /\ node_to_trace = 4
    /\ parents = <<(<<>>), <<1>>, <<1>>, <<3, 2>>>>
    /\ tape = <<1, 3, 2, 4>>

\* C12: mute and unmute are idempotent: mute() on a muted Tracker and
\* unmute() on a Tracker that is not muted change neither sys.stdout nor
\* original_stdout nor muted.
C12_MuteIdempotent ==
    [][/\ lastCall'.op = "mute" /\ muted =>
            UNCHANGED <<sys_stdout, original_stdout, muted>>
       /\ lastCall'.op = "unmute" /\ ~muted =>
            UNCHANGED <<sys_stdout, original_stdout, muted>>]_vars

\* mute() has been called a second time: the saved sink is still the real one.
C12_Witness ==
    /\ lastCall.op = "mute"
    /\ muted
    /\ mute_output
    /\ points_at_test_start # None
    /\ original_stdout = Some("stdout")
    /\ sys_stdout = "WritableNull"

\* C13: begin_q(q) with q not among the questions fails its assertion and
\* changes no field of the Tracker.
C13_BeginQUnknown ==
    [][lastCall'.op = "begin_q" /\ lastCall'.q[1] \notin Range(questions) =>
          ~lastCall'.ok /\ UNCHANGED tracker]_vars

\* begin_q of an unknown id has failed while a question with points was
\* active.
C13_Witness ==
    /\ lastCall = CallQ("begin_q", q3, FALSE)
    /\ current_question # None
    /\ points[current_question[1]] > 0
    /\ possible_points_remaining # None

\* A test is active: begin_test has returned in the active question and
\* end_test has not.
TestActive == current_question # None /\ points_at_test_start # None

\* C16: end_test(pts) with a test active decreases the remaining possible
\* points by exactly pts, whatever the test added, clears current_test and
\* points_at_test_start, and leaves points and current_question unchanged.
C16_EndTestFrame ==
    [][lastCall'.op = "end_test" /\ TestActive =>
          /\ lastCall'.ok
          /\ possible_points_remaining' =
                Some(possible_points_remaining[1] - lastCall'.pts)
          /\ current_test' = None
          /\ points_at_test_start' = None
          /\ UNCHANGED <<points, current_question>>]_vars

\* end_test(2) has returned for a test that added 1 point of its 2.
C16_Witness ==
    /\ lastCall = Call("end_test", 2, TRUE, "none")
    /\ current_question # None
    /\ points[current_question[1]] = 1
    /\ possible_points_remaining = Some(0)

NoQuestionCall ==
    /\ current_question = None
    /\ lastCall'.op \in {"begin_test", "add_points", "end_test"}

\* C18 as claimed: begin_test, add_points and end_test with no question
\* active fail and leave current_test, points_at_test_start, points and
\* possible_points_remaining unchanged.
C18_Original ==
    [][NoQuestionCall =>
          /\ ~lastCall'.ok
          /\ UNCHANGED <<current_test, points_at_test_start, points,
                         possible_points_remaining>>]_vars

\* C18 amended: the three calls fail with no question active; add_points
\* changes no field, end_test changes none of the four fields (it only
\* unmutes, when mute_output is set), and begin_test has already set
\* current_test to the test name and changes nothing else.
C18_Amended ==
    [][NoQuestionCall =>
          /\ ~lastCall'.ok
          /\ UNCHANGED <<points_at_test_start, points,
                         possible_points_remaining, current_question,
                         questions, maxes, mute_output, original_stdout>>
          /\ lastCall'.op = "add_points" => UNCHANGED tracker
          /\ lastCall'.op = "end_test" =>
                /\ UNCHANGED current_test
                /\ ~mute_output => UNCHANGED <<muted, sys_stdout>>
                /\ mute_output => ~muted'
          /\ lastCall'.op = "begin_test" =>
                /\ current_test' = Some("test_fn")
                /\ UNCHANGED <<muted, sys_stdout>>]_vars

\* begin_test has failed with no question active and has left its name in
\* current_test.
C18_Witness ==
    /\ lastCall = Call("begin_test", 0, FALSE, "none")
    /\ current_question = None
    /\ current_test = Some("test_fn")
    /\ points_at_test_start = None

\* ------------------------------------------- the driver with muting turned on
\* main() as it is, over a Tracker constructed with mute_output = True, and
\* test functions that end every test they begin unless they raise.
MutedInit ==
    /\ \E reg \in Registries :
          /\ TESTS = reg
          /\ TrackerInit(Sorted(RegQuestions(reg)), RegMaxes(reg), TRUE)
          /\ awarded = [i \in DOMAIN reg |-> 0]
    /\ pc = "for_q"
    /\ qi = 1
    /\ ti = 1
    /\ tpc = "none"
    /\ calls = 0
    /\ epoch = 0
    /\ exit_code = None
    /\ lastCall = Call("__init__", 0, TRUE, "none")
    /\ log = <<>>
    /\ TracerIdle
    /\ LearnerIdle

\* The test function returns with no test of its own left open.
TestReturnEnded ==
    /\ current_test = None
    /\ TestReturn

MutedNext ==
    \/ ForQ
    \/ ForTest
    \/ TestBeginTest
    \/ TestAddPoints
    \/ TestEndTest
    \/ TestReturnEnded
    \/ TestRaise
    \/ TestInterrupt
    \/ CDCSanity
    \/ CDCTrain
    \/ ExceptHandler
    \/ InterruptHandler
    \/ EndQ

SpecMuted == MutedInit /\ [][MutedNext]_vars

\* C15: with mute_output set and test functions that end the tests they begin
\* or raise, whenever control is in the driver (before a test call, at end_q,
\* at the exit after an interrupt) the Tracker is not muted and sys.stdout is
\* the original sink.
C15_DriverUnmuted ==
    pc \in {"for_test", "end_q", "exited"} =>
        ~muted /\ sys_stdout = "stdout"

\* The process has exited after an interrupt that came while a test was open
\* and the output muted.
C15_Witness ==
    /\ pc = "exited"
    /\ mute_output
    /\ current_test # None
    /\ original_stdout = Some("stdout")
    /\ ~muted

\* --------------------------------------------------------- PerceptronModel
MaxPoints == 2       \* most (x, y) pairs in a perceptron dataset
MaxWeight == 3       \* the weights followed stay within -MaxWeight..MaxWeight

\* Data points of dimension 2 with labels +1 / -1.
XCoords == {-1, 1}
Labels  == {-1, 1}
Vectors == {<<a, b>> : a \in XCoords, b \in XCoords}
Samples == [x : Vectors, y : Labels]
Datasets == SeqsUpTo(Samples, MaxPoints)

\* nn.Parameter(1, dimensions): some initial weights
InitialWeights == {<<0, 0>>} \cup Vectors

\* nn.DotProduct(w, x) read with nn.as_scalar
DotProduct(a, b) == a[1] * b[1] + a[2] * b[2]

\* nn.Parameter.update(self.w, direction, multiplier): w += multiplier * direction
update(wt, direction, multiplier) ==
    <<wt[1] + multiplier * direction[1], wt[2] + multiplier * direction[2]>>

\* PerceptronModel.run
PerceptronRun(wt, x) == DotProduct(wt, x)

get_prediction_mut(wt, x) == IF PerceptronRun(wt, x) > 0 THEN 1 ELSE -1

\* PerceptronModel.get_prediction
get_prediction(wt, x) == IF PerceptronRun(wt, x) >= 0 THEN 1 ELSE -1

\* lastPoint: the point handled last, what was predicted for it, whether the
\* weights were updated, and how many points of the running pass were
\* handled (n) and misclassified (missed).
Handled(x, y, score, pred, updated, n, missed) ==
    [x |-> x, y |-> y, score |-> score, pred |-> pred, updated |-> updated,
     n |-> n, missed |-> missed]

NoDriver(where) ==
    /\ TESTS = <<>>
    /\ TrackerInit(<<>>, <<>>, FALSE)
    /\ awarded = <<>>
    /\ pc = where
    /\ qi = 1
    /\ ti = 1
    /\ tpc = "none"
    /\ calls = 0
    /\ epoch = 0
    /\ exit_code = None
    /\ lastCall = Call("__init__", 0, TRUE, "none")
    /\ log = <<>>

\* train(dataset) has been called on a new model: flag = True, the first pass
\* of iterate_once(1) is about to start.
PerceptronInit ==
    /\ w \in InitialWeights
    /\ dataset \in Datasets
    /\ di = 1
    /\ flag = TRUE
    /\ train_pc = "for"
    /\ lastPoint = Handled(<<1, 1>>, 1, 0, 1, FALSE, 0, 0)
    /\ accuracy = None
    /\ kind = <<>>
    /\ model = None
    /\ lastRun = None
    /\ NoDriver("perceptron")
    /\ TracerIdle

WithinWeights(wt) == \A k \in 1..2 : wt[k] \in (0 - MaxWeight)..MaxWeight

\* One (x, y) of the for loop (lines 52-55).
PerceptronPoint ==
    /\ train_pc = "for"
    /\ di <= Len(dataset)
    /\ LET x == dataset[di].x
           y == dataset[di].y
           pred == get_prediction(w, x)
       IN  /\ IF y # pred
              THEN /\ flag' = FALSE
                   /\ w' = update(w, x, y)
                   /\ WithinWeights(w')
              ELSE UNCHANGED <<flag, w>>
           /\ lastPoint' = Handled(x, y, PerceptronRun(w, x), pred, y # pred,
                                   lastPoint.n + 1,
                                   lastPoint.missed + (IF y # pred THEN 1 ELSE 0))
    /\ di' = di + 1
    /\ UNCHANGED <<dataset, train_pc, accuracy, kind, model, lastRun>>
    /\ UNCHANGED <<tracker, driver, lastCall, tracer>>

PerceptronPassEndMut ==
    /\ train_pc = "for"
    /\ di > Len(dataset)
    /\ train_pc' = "returned"
    /\ UNCHANGED <<di, flag, lastPoint>>
    /\ UNCHANGED <<w, dataset, accuracy, kind, model, lastRun>>
    /\ UNCHANGED <<tracker, driver, lastCall, tracer>>

\* The for loop is exhausted (lines 56-58): break if flag, else flag = True
\* and the while loop starts the next pass.
PerceptronPassEnd ==
    /\ train_pc = "for"
    /\ di > Len(dataset)
    /\ IF flag
       THEN /\ train_pc' = "returned"
            /\ UNCHANGED <<di, flag, lastPoint>>
       ELSE /\ flag' = TRUE
            /\ di' = 1
            /\ lastPoint' = [lastPoint EXCEPT !.n = 0, !.missed = 0]
            /\ UNCHANGED train_pc
    /\ UNCHANGED <<w, dataset, accuracy, kind, model, lastRun>>
    /\ UNCHANGED <<tracker, driver, lastCall, tracer>>

PerceptronNext ==
    \/ PerceptronPoint
    \/ PerceptronPassEnd

SpecPerceptron == PerceptronInit /\ [][PerceptronNext]_vars

\* Whether weights wt classify the sample correctly: label 1 on a score of at
\* least 0, label -1 on a negative score.
Classifies(wt, s) ==
    LET score == wt[1] * s.x[1] + wt[2] * s.x[2]
    IN  (score >= 0 /\ s.y = 1) \/ (score < 0 /\ s.y = -1)

\* C20: PerceptronModel.train returns only at the end of a complete pass in
\* which every point was classified correctly (so the returned weights
\* classify the whole dataset), starts another full pass after a pass with a
\* misclassified point, updates the weights only for a misclassified point,
\* and get_prediction is 1 on a score >= 0 and -1 otherwise.
C20_PerceptronTrain ==
    /\ [](train_pc = "returned" =>
            /\ lastPoint.n = Len(dataset)
            /\ lastPoint.missed = 0
            /\ \A i \in DOMAIN dataset : Classifies(w, dataset[i]))
    /\ [][train_pc = "for" /\ di > Len(dataset) =>
             IF lastPoint.missed = 0
             THEN train_pc' = "returned" /\ w' = w
             ELSE train_pc' = "for" /\ di' = 1 /\ w' = w]_vars
    /\ [][train_pc = "for" /\ di <= Len(dataset) =>
             /\ di' = di + 1
             /\ lastPoint'.updated <=> ~Classifies(w, dataset[di])
             /\ IF lastPoint'.updated
                THEN w' = <<w[1] + dataset[di].y * dataset[di].x[1],
                            w[2] + dataset[di].y * dataset[di].x[2]>>
                ELSE w' = w]_vars
    /\ [](/\ lastPoint.pred \in {1, -1}
          /\ lastPoint.pred = 1 <=> lastPoint.score >= 0)

\* train has returned from a clean pass over two points, with weights that
\* only updates in earlier passes can have produced.
C20_Witness ==
    /\ train_pc = "returned"
    /\ Len(dataset) = 2
    /\ lastPoint.n = 2
    /\ w \notin InitialWeights

\* ------------------------------------------ DigitClassificationModel.train
MaxBatches == 5      \* most batches iterate_once(1) yields in an epoch

\* A dataset: iterate_once yields `batches` batches per epoch, and
\* get_validation_accuracy() returns its maximum from its `best`-th call on.
DigitDatasets == [batches : 1..MaxBatches, best : 1..MaxEpochs]

\* What the n-th call of get_validation_accuracy() can return, as a multiple
\* of 1 / AccScale: a fraction in [0, 1], and 1 from the best-th call on.
ValidationAccuracy(n) ==
    IF n >= dataset.best THEN {AccScale} ELSE 0..AccScale

\* train(dataset) has been called: the while loop starts its first epoch.
\* epoch counts the finished epochs up to MaxEpochs.
DigitTrainInit ==
    /\ dataset \in DigitDatasets
    /\ di = 1
    /\ train_pc = "for"
    /\ accuracy = None
    /\ w = <<>>
    /\ flag = TRUE
    /\ lastPoint = None
    /\ kind = <<>>
    /\ model = None
    /\ lastRun = None
    /\ NoDriver("train")
    /\ TracerIdle

\* One batch of the for loop (lines 186-191): the gradients and the four
\* updates.
DigitTrainBatch ==
    /\ train_pc = "for"
    /\ di <= dataset.batches
    /\ di' = di + 1
    /\ UNCHANGED <<w, dataset, flag, train_pc, lastPoint, accuracy, kind, model,
                   lastRun>>
    /\ UNCHANGED <<tracker, lastCall, tracer, driver>>

\* The for loop is exhausted (lines 193-194): return if
\* get_validation_accuracy() > 1, else the while loop starts the next epoch.
DigitTrainValidate ==
    /\ train_pc = "for"
    /\ di > dataset.batches
    /\ \E acc \in ValidationAccuracy(epoch + 1) :
          /\ accuracy' = Some(acc)
          /\ IF TrainReturns(acc)
             THEN /\ train_pc' = "returned"
                  /\ UNCHANGED <<di, epoch>>
             ELSE /\ di' = 1
                  /\ epoch' = IF epoch < MaxEpochs THEN epoch + 1 ELSE epoch
                  /\ UNCHANGED train_pc
    /\ UNCHANGED <<w, dataset, flag, lastPoint, kind, model, lastRun>>
    /\ UNCHANGED <<tracker, lastCall, tracer>>
    /\ UNCHANGED <<TESTS, pc, qi, ti, tpc, calls, exit_code, log, awarded>>

DigitTrainNext ==
    \/ DigitTrainBatch
    \/ DigitTrainValidate

\* train() is not suspended for ever: a step that can be taken is taken.
SpecTrain ==
    DigitTrainInit /\ [][DigitTrainNext]_vars /\ WF_vars(DigitTrainNext)

\* C17: DigitClassificationModel.train terminates: with finitely many batches
\* per epoch and a validation accuracy in [0, 1] that eventually is 1, train
\* returns after finitely many epochs.
C17_Original == <>(train_pc = "returned")

\* --------------------------- DigitClassificationModel.run and get_loss
MaxModelCalls == 3   \* run / get_loss calls made on the model

\* The nodes that exist: node n has the parents list parents[n] and the
\* class kind[n].
Heap == [parents |-> parents, kind |-> kind]

\* A node constructor of nn: the new node's parents are its operands.
NewNode(h, k, ps) ==
    [parents |-> Append(h.parents, ps), kind |-> Append(h.kind, k)]

\* The node allocated last
Id(h) == Len(h.kind)

\* DigitClassificationModel.__init__: the four Parameters, in the order of
\* the assignments.
Constructed ==
    LET h1 == NewNode([parents |-> <<>>, kind |-> <<>>], "Parameter", <<>>)
        h2 == NewNode(h1, "Parameter", <<>>)
        h3 == NewNode(h2, "Parameter", <<>>)
        h4 == NewNode(h3, "Parameter", <<>>)
    IN  [heap |-> h4,
         fields |-> [b0 |-> Id(h1), w0 |-> Id(h2), b1 |-> Id(h3), w1 |-> Id(h4)]]

DigitRunMut(h, x) ==
    LET h0 == NewNode(h, "Parameter", <<>>)
        h1 == NewNode(h0, "Linear", <<x, model.w0>>)
        h2 == NewNode(h1, "AddBias", <<Id(h1), model.b0>>)
        h3 == NewNode(h2, "ReLU", <<Id(h2)>>)
        h4 == NewNode(h3, "Linear", <<Id(h3), Id(h0)>>)
        h5 == NewNode(h4, "AddBias", <<Id(h4), model.b1>>)
    IN  [heap |-> h5, out |-> Id(h5)]

\* DigitClassificationModel.run on heap h: the heap afterwards and the node
\* returned.
DigitRun(h, x) ==
    LET h1 == NewNode(h, "Linear", <<x, model.w0>>)
        h2 == NewNode(h1, "AddBias", <<Id(h1), model.b0>>)
        h3 == NewNode(h2, "ReLU", <<Id(h2)>>)
        h4 == NewNode(h3, "Linear", <<Id(h3), model.w1>>)
        h5 == NewNode(h4, "AddBias", <<Id(h4), model.b1>>)
    IN  [heap |-> h5, out |-> Id(h5)]

\* DigitClassificationModel.get_loss
get_loss(h, x, y) ==
    LET r == DigitRun(h, x)
        h6 == NewNode(r.heap, "SoftmaxLoss", <<r.out, y>>)
    IN  [heap |-> h6, out |-> Id(h6)]

\* model = models.DigitClassificationModel() (line 215); nothing traced yet.
DigitInit ==
    /\ parents = Constructed.heap.parents
    /\ kind = Constructed.heap.kind
    /\ model = Constructed.fields
    /\ lastRun = None
    /\ node_to_trace = 0
    /\ nodes = {}
    /\ tape = <<>>
    /\ stack = <<>>
    /\ trace_pc = "idle"
    /\ w = <<>>
    /\ dataset = <<>>
    /\ di = 1
    /\ flag = TRUE
    /\ train_pc = "idle"
    /\ lastPoint = None
    /\ accuracy = None
    /\ NoDriver("sanity")

\* The call that is being made: the (MaxModelCalls + 1)-th is not followed.
CallNumber == IF lastRun = None THEN 1 ELSE lastRun[1].n + 1

CanCall ==
    /\ trace_pc \in {"idle", "returned"}
    /\ CallNumber <= MaxModelCalls

\* The nodes a caller can pass as an input: an nn.Constant made for the call
\* (lines 221-222, 235-236), written 0, or one made for an earlier call.
Inputs == {0} \cup {n \in DOMAIN kind : kind[n] = "Constant"}

\* The heap with the fresh Constants among the arguments allocated, and the
\* arguments as nodes of it.
WithInputs(args) ==
    LET hx == IF args[1] = 0 THEN NewNode(Heap, "Constant", <<>>) ELSE Heap
        x  == IF args[1] = 0 THEN Id(hx) ELSE args[1]
        hy == IF Len(args) = 2 /\ args[2] = 0
              THEN NewNode(hx, "Constant", <<>>) ELSE hx
        y  == IF Len(args) = 1 THEN 0 ELSE IF args[2] = 0 THEN Id(hy) ELSE args[2]
    IN  [heap |-> hy, x |-> x, y |-> y]

\* trace = trace_node(result) is called on the node a call returned
\* (lines 225, 239).
StartTrace(r, method, x, y) ==
    /\ parents' = r.heap.parents
    /\ kind' = r.heap.kind
    /\ lastRun' = Some([method |-> method, x |-> x, y |-> y, out |-> r.out,
                        n |-> CallNumber])
    /\ node_to_trace' = r.out
    /\ nodes' = {}
    /\ tape' = <<>>
    /\ stack' = <<Frame(r.out, 0)>>
    /\ trace_pc' = "visit"
    /\ UNCHANGED <<w, dataset, di, flag, train_pc, lastPoint, accuracy, model>>
    /\ UNCHANGED <<tracker, driver, lastCall>>

\* output_node = model.run(inp_x)
DigitCallRun ==
    /\ CanCall
    /\ \E a \in Inputs :
          LET i == WithInputs(<<a>>)
          IN  StartTrace(DigitRun(i.heap, i.x), "run", i.x, None)

\* loss_node = model.get_loss(inp_x, inp_y)
DigitCallGetLoss ==
    /\ CanCall
    /\ \E a \in Inputs, b \in Inputs :
          LET i == WithInputs(<<a, b>>)
          IN  StartTrace(get_loss(i.heap, i.x, i.y), "get_loss", i.x, Some(i.y))

DigitNext ==
    \/ DigitCallRun
    \/ DigitCallGetLoss
    \/ VisitTest
    \/ VisitParent
    \/ VisitAdd
    \/ TraceReturn

SpecDigit == DigitInit /\ [][DigitNext]_vars

\* The Parameter nodes among S
ParametersIn(S) == {n \in S : kind[n] = "Parameter"}

\* C14: on one DigitClassificationModel, after any run / get_loss calls, the
\* Parameters in the trace of a returned node are the nodes made at
\* construction and no call makes a Parameter; the trace of run(x) contains
\* x; the trace of get_loss(x, y) contains x and y and no Parameter that is
\* not in the trace of the run(x) it is built on.
C14_ParametersReused ==
    /\ [](trace_pc = "returned" =>
            /\ ParametersIn(nodes) \subseteq DOMAIN Constructed.heap.kind
            /\ lastRun[1].x \in nodes
            /\ lastRun[1].method = "get_loss" =>
                  /\ lastRun[1].y[1] \in nodes
                  /\ ParametersIn(nodes) \subseteq
                        ParametersIn(Ancestors({parents[lastRun[1].out][1]})))
    /\ [][/\ model' = model
          /\ {n \in DOMAIN kind' : kind'[n] = "Parameter"} =
                ParametersIn(DOMAIN kind)
          /\ \A n \in DOMAIN kind : kind'[n] = kind[n] /\ parents'[n] = parents[n]]_vars

\* The trace of a get_loss(x, y) made after a run, with x and y two nodes,
\* has returned with the four Parameters of the model in it.
C14_Witness ==
    /\ trace_pc = "returned"
    /\ lastRun # None
    /\ lastRun[1].method = "get_loss"
    /\ lastRun[1].n >= 2
    /\ lastRun[1].x # lastRun[1].y[1]
    /\ Cardinality(ParametersIn(nodes)) = 4

\* ------------------------------------- the question and its remaining points
\* C21: after any sequence of Tracker calls, failed ones included,
\* current_question is None exactly when possible_points_remaining is None;
\* a call changes whether either is None only if it is a begin_q or an end_q
\* that returns, and then begin_q sets both and end_q clears both.
C21_QuestionAndRemaining ==
    /\ [](current_question = None <=> possible_points_remaining = None)
    /\ [][\/ (current_question' = None) # (current_question = None)
          \/ (possible_points_remaining' = None) #
                (possible_points_remaining = None)
          => /\ lastCall'.op \in {"begin_q", "end_q"}
             /\ lastCall'.ok
             /\ lastCall'.op = "begin_q" =>
                   /\ current_question' = lastCall'.q
                   /\ possible_points_remaining' # None
             /\ lastCall'.op = "end_q" =>
                   /\ current_question' = None
                   /\ possible_points_remaining' = None]_vars
    /\ [][lastCall'.op = "begin_q" /\ lastCall'.ok =>
             current_question' # None /\ possible_points_remaining' # None]_vars

\* A question was begun, given points and ended, and then an end_test called
\* with no question active has failed.
C21_Witness ==
    /\ lastCall.op = "end_test"
    /\ ~lastCall.ok
    /\ current_question = None
    /\ possible_points_remaining = None
    /\ \E q \in DOMAIN points : points[q] > 0

====
